---- MODULE Spec2Model ----
(***************************************************************************)
(* Model of new_primeCounter.c: one producer (main) feeding a Michael-Scott *)
(* queue, numCPU workers dequeuing and counting primes, shutdown through    *)
(* the done flag and the advisory size counter.                             *)
(*                                                                          *)
(* Every access to shared memory is one step.  queue->head, queue->tail and *)
(* node->next are plain (non-atomic) objects in the source, read with plain *)
(* loads; only the __sync CAS and the atomic_* calls order memory.  The     *)
(* model therefore lets the independent loads of one dequeue iteration      *)
(* (lines 108-110) happen in any order the address dependency allows, and   *)
(* lets the re-check of line 90 / line 111 be folded to true.               *)
(* malloc and pthread_create are taken to succeed.                          *)
(*                                                                          *)
(* Spec is the program.  SpecMP drives enqueue from several threads, and    *)
(* SpecArena allocateNode, as their contracts allow; SpecBatch is the       *)
(* mutex-based batch counter of part_000.                                   *)
(***************************************************************************)
EXTENDS Integers, Sequences, FiniteSets, TLC

\* ---------------------------------------------------------------- bounds
MaxLen == 4
MaxWorkers == 2
\* -1 is also what dequeue returns for an empty queue; 29 is a prime that
\* isPrime decides in its loop
Values == {-1, 29}

\* ------------------------------------------------------ program constants
\* Both are scaled down from the source (256 and 10000000) so that the
\* backpressure wait and the exhaustion of the pool happen within MaxLen.
MAX_QUEUE_SIZE == 2
MEMORY_POOL_SIZE == 3

NULL == 0
\* the node malloc'ed by createQueue
Dummy == 1
\* the value dequeue returns for an empty queue
EMPTY == -1

Main == 0

VARIABLES
  input,          \* the integers scanf has delivered so far
  eof,            \* scanf has returned EOF
  numCPU,         \* number of worker threads
  proc,           \* "running", "exhausted" (exit), "segv", "finished"
  pc,             \* position of every thread
  head, tail, size,         \* Queue
  heap,           \* malloc'ed Nodes: heap[n] = [value, next]
  poolIndex, pool,          \* MemoryPool
  done, total_counter,
  num,            \* main's local num
  node,           \* main's arena slot
  total_numbers,
  joined,         \* index of main's join loop
  newNode,        \* newNode[t]: enqueue's local newNode in thread t
  lhead, ltail, lnext, lvalue,   \* locals of enqueue / dequeue
  todo,           \* loads of the current dequeue iteration not yet performed
  output,         \* what main printed
  \* history (not program state)
  linkLog,        \* nodes in the order they were linked
  deqLog,         \* nodes in the order of the head CAS that removed them
  retCount,       \* retCount[n]: dequeue calls that returned node n's value
  advanced,       \* advanced[w]: w's last dequeue call moved head
  \* allocateNode called by several threads (SpecArena)
  idx,            \* idx[t]: allocateNode's local idx in thread t
  claimLog,       \* history: the indexes claimed, in the order of the fetch_add
  \* the batch counter of part_000 (SpecBatch)
  buffer, index, prime_count,    \* main's locals
  thread_data,    \* thread_data[t] = [start, end]
  mutex,          \* the thread holding the mutex, or NULL
  count,          \* count[t]: countPrimes' local count
  ci,             \* ci[t]: countPrimes' loop variable i
  acc             \* acc[t]: the value loaded by *prime_count += count

vars == <<input, eof, numCPU, proc, pc, head, tail, size, heap, poolIndex,
          pool, done, total_counter, num, node, total_numbers, joined,
          newNode, lhead, ltail, lnext, lvalue, todo, output, linkLog,
          deqLog, retCount, advanced, idx, claimLog, buffer, index,
          prime_count, thread_data, mutex, count, ci, acc>>

Threads == 0..MaxWorkers
Workers == 1..numCPU

\* ------------------------------------------------------------- isPrime
RECURSIVE isPrimeLoop(_, _)
isPrimeLoop(n, i) ==
  IF i * i <= n
  THEN IF n % i = 0 \/ n % (i + 2) = 0 THEN FALSE ELSE isPrimeLoop(n, i + 6)
  ELSE TRUE

isPrime(n) ==
  IF n <= 1 THEN FALSE
  ELSE IF n <= 3 THEN TRUE
  ELSE IF n % 2 = 0 \/ n % 3 = 0 THEN FALSE
  ELSE isPrimeLoop(n, 5)

\* --------------------------------------------------------------- Init
\* The state after main has created the queue, the pool and the threads.
DetectedCPU(r) == IF r < 1 THEN 1 ELSE r

\* no thread is inside the fine-grained allocateNode of SpecArena
NoAllocators ==
  /\ idx = [t \in Threads |-> 0]
  /\ claimLog = << >>

\* the batch counter of part_000 is another program: not running
NoBatch ==
  /\ buffer = << >> /\ index = 0 /\ prime_count = 0
  /\ thread_data = << >> /\ mutex = NULL
  /\ count = << >> /\ ci = << >> /\ acc = << >>

Init ==
  /\ input = << >>
  /\ eof = FALSE
  /\ \E r \in -1..MaxWorkers : numCPU = DetectedCPU(r)
  /\ proc = "running"
  /\ pc = [t \in Threads |-> IF t = Main THEN "scan"
                             ELSE IF t <= numCPU THEN "loop" ELSE "none"]
  /\ head = Dummy /\ tail = Dummy /\ size = 0
  /\ heap = <<[value |-> 0, next |-> NULL]>>
  /\ poolIndex = 0
  /\ pool = << >>
  /\ done = FALSE
  /\ total_counter = 0
  /\ num = 0
  /\ node = 0
  /\ total_numbers = 0
  /\ joined = 0
  /\ newNode = [t \in Threads |-> NULL]
  /\ lhead = [t \in Threads |-> NULL]
  /\ ltail = [t \in Threads |-> NULL]
  /\ lnext = [t \in Threads |-> NULL]
  /\ lvalue = [t \in Threads |-> 0]
  /\ todo = [t \in Threads |-> {}]
  /\ output = << >>
  /\ linkLog = << >>
  /\ deqLog = << >>
  /\ retCount = [n \in 1..(MaxLen + 1) |-> 0]
  /\ advanced = [t \in Threads |-> FALSE]
  /\ NoAllocators
  /\ NoBatch

Goto(t, l) == pc' = [pc EXCEPT ![t] = l]

qVars == <<head, tail, size, heap>>
poolVars == <<poolIndex, pool>>
mainVars == <<input, eof, node, total_numbers, joined, newNode, output>>
localVars == <<lhead, ltail, lnext, lvalue, todo>>
histVars == <<linkLog, deqLog, retCount, advanced>>
arenaVars == <<idx, claimLog>>
\* what no step of main or of a worker changes
batchVars == <<buffer, index, prime_count, thread_data, mutex, count, ci,
               acc>>
fixedVars == <<numCPU, arenaVars, batchVars>>

\* ----------------------------------------------------------- main
\* line 231: scanf delivers the next integer of the stream, or EOF
ScanValue ==
  /\ proc = "running" /\ pc[Main] = "scan"
  /\ Len(input) < MaxLen
  /\ \E v \in Values :
       /\ num' = v
       /\ input' = Append(input, v)
  /\ Goto(Main, "bp")
  /\ UNCHANGED <<fixedVars, proc, qVars, poolVars, done, total_counter, eof,
                 node, total_numbers, joined, newNode, output, localVars,
                 histVars>>

ScanEOF ==
  /\ proc = "running" /\ pc[Main] = "scan"
  /\ eof' = TRUE
  /\ Goto(Main, "set_done")
  /\ UNCHANGED <<fixedVars, proc, qVars, poolVars, done, total_counter, num,
                 input, node, total_numbers, joined, newNode, output,
                 localVars, histVars>>

\* mutant: the test is > instead of >=
BackpressureOffByOne ==
  /\ proc = "running" /\ pc[Main] = "bp"
  /\ Goto(Main, IF size > MAX_QUEUE_SIZE THEN "bp_sleep" ELSE "alloc")
  /\ UNCHANGED <<fixedVars, proc, qVars, poolVars, done, total_counter, num,
                 mainVars, localVars, histVars>>

\* line 232: the backpressure test
Backpressure ==
  /\ proc = "running" /\ pc[Main] = "bp"
  /\ Goto(Main, IF size >= MAX_QUEUE_SIZE THEN "bp_sleep" ELSE "alloc")
  /\ UNCHANGED <<fixedVars, proc, qVars, poolVars, done, total_counter, num,
                 mainVars, localVars, histVars>>

\* line 233
BackpressureSleep ==
  /\ proc = "running" /\ pc[Main] = "bp_sleep"
  /\ Goto(Main, "bp")
  /\ UNCHANGED <<fixedVars, proc, qVars, poolVars, done, total_counter, num,
                 mainVars, localVars, histVars>>

\* mutant: the bound test is > instead of >=
AllocateNodeOffByOne ==
  /\ proc = "running" /\ pc[Main] = "alloc"
  /\ poolIndex' = poolIndex + 1
  /\ IF poolIndex > MEMORY_POOL_SIZE
     THEN /\ proc' = "exhausted"
          /\ UNCHANGED <<pc, pool, node>>
     ELSE /\ node' = poolIndex
          /\ pool' = Append(pool, num)
          /\ Goto(Main, "enq_malloc")
          /\ UNCHANGED proc
  /\ UNCHANGED <<fixedVars, qVars, done, total_counter, num, input, eof,
                 total_numbers, joined, newNode, output, localVars, histVars>>

\* lines 235-236: allocateNode, then node->value = num
AllocateNode ==
  /\ proc = "running" /\ pc[Main] = "alloc"
  /\ poolIndex' = poolIndex + 1
  /\ IF poolIndex >= MEMORY_POOL_SIZE
     THEN /\ proc' = "exhausted"
          /\ UNCHANGED <<pc, pool, node>>
     ELSE /\ node' = poolIndex
          /\ pool' = Append(pool, num)
          /\ Goto(Main, "enq_malloc")
          /\ UNCHANGED proc
  /\ UNCHANGED <<fixedVars, qVars, done, total_counter, num, input, eof,
                 total_numbers, joined, newNode, output, localVars, histVars>>

\* lines 237, 78-84: enqueue(queue, node->value) allocates its own node
EnqueueMalloc ==
  /\ proc = "running" /\ pc[Main] = "enq_malloc"
  /\ heap' = Append(heap, [value |-> pool[node + 1], next |-> NULL])
  /\ newNode' = [newNode EXCEPT ![Main] = Len(heap) + 1]
  /\ Goto(Main, "enq_tail")
  /\ UNCHANGED <<fixedVars, proc, head, tail, size, poolVars, done,
                 total_counter, num, input, eof, node, total_numbers, joined, output,
                 localVars, histVars>>

\* line 88
EnqueueReadTail ==
  /\ proc = "running" /\ pc[Main] = "enq_tail"
  /\ ltail' = [ltail EXCEPT ![Main] = tail]
  /\ Goto(Main, "enq_next")
  /\ UNCHANGED <<fixedVars, proc, qVars, poolVars, done, total_counter, num,
                 mainVars, lhead, lnext, lvalue, todo, histVars>>

\* line 89
EnqueueReadNext ==
  /\ proc = "running" /\ pc[Main] = "enq_next"
  /\ lnext' = [lnext EXCEPT ![Main] = heap[ltail[Main]].next]
  /\ Goto(Main, "enq_check")
  /\ UNCHANGED <<fixedVars, proc, qVars, poolVars, done, total_counter, num,
                 mainVars, lhead, ltail, lvalue, todo, histVars>>

\* lines 90-91: a plain re-read of queue->tail, which the build may fold
EnqueueCheck ==
  /\ proc = "running" /\ pc[Main] = "enq_check"
  /\ \E same \in {TRUE, ltail[Main] = tail} :
       Goto(Main, IF ~same THEN "enq_tail"
                  ELSE IF lnext[Main] = NULL THEN "enq_link" ELSE "enq_help")
  /\ UNCHANGED <<fixedVars, proc, qVars, poolVars, done, total_counter, num,
                 mainVars, localVars, histVars>>

\* line 92 (link the node) or line 98 (help a lagging tail)
EnqueueCas ==
  /\ proc = "running" /\ pc[Main] \in {"enq_link", "enq_help"}
  /\ IF pc[Main] = "enq_link"
     THEN IF heap[ltail[Main]].next = lnext[Main]
          THEN /\ heap' = [heap EXCEPT ![ltail[Main]].next = newNode[Main]]
               /\ linkLog' = Append(linkLog, newNode[Main])
               /\ Goto(Main, "enq_swing")
               /\ UNCHANGED tail
          ELSE /\ Goto(Main, "enq_tail")
               /\ UNCHANGED <<heap, linkLog, tail>>
     ELSE /\ tail' = IF tail = ltail[Main] THEN lnext[Main] ELSE tail
          /\ Goto(Main, "enq_tail")
          /\ UNCHANGED <<heap, linkLog>>
  /\ UNCHANGED <<fixedVars, proc, head, size, poolVars, done, total_counter,
                 num, mainVars, localVars, deqLog, retCount, advanced>>

\* line 93
EnqueueSwing ==
  /\ proc = "running" /\ pc[Main] = "enq_swing"
  /\ tail' = IF tail = ltail[Main] THEN newNode[Main] ELSE tail
  /\ Goto(Main, "enq_inc")
  /\ UNCHANGED <<fixedVars, proc, head, size, heap, poolVars, done,
                 total_counter, num, mainVars, localVars, histVars>>

\* mutant: enqueue returns without the fetch_add on size
EnqueueIncForgotten ==
  /\ proc = "running" /\ pc[Main] = "enq_inc"
  /\ total_numbers' = total_numbers + 1
  /\ newNode' = [newNode EXCEPT ![Main] = NULL]
  /\ ltail' = [ltail EXCEPT ![Main] = NULL]
  /\ lnext' = [lnext EXCEPT ![Main] = NULL]
  /\ Goto(Main, "scan")
  /\ UNCHANGED <<fixedVars, proc, head, tail, size, heap, poolVars, done,
                 total_counter, num, input, eof, node, joined, output, lhead,
                 lvalue, todo, histVars>>

\* lines 94-95, 238: size++, return, total_numbers++
EnqueueInc ==
  /\ proc = "running" /\ pc[Main] = "enq_inc"
  /\ size' = size + 1
  /\ total_numbers' = total_numbers + 1
  /\ newNode' = [newNode EXCEPT ![Main] = NULL]
  /\ ltail' = [ltail EXCEPT ![Main] = NULL]
  /\ lnext' = [lnext EXCEPT ![Main] = NULL]
  /\ Goto(Main, "scan")
  /\ UNCHANGED <<fixedVars, proc, head, tail, heap, poolVars, done,
                 total_counter, num, input, eof, node, joined, output, lhead, lvalue,
                 todo, histVars>>

\* mutant: done is stored before the input loop, not after it
SetDoneEarly ==
  /\ proc = "running" /\ pc[Main] \in {"scan", "set_done"}
  /\ IF pc[Main] = "scan" THEN ~done /\ UNCHANGED pc ELSE Goto(Main, "join")
  /\ done' = TRUE
  /\ UNCHANGED <<fixedVars, proc, qVars, poolVars, total_counter, num,
                 mainVars, localVars, histVars>>

\* line 242
SetDone ==
  /\ proc = "running" /\ pc[Main] = "set_done"
  /\ done' = TRUE
  /\ Goto(Main, "join")
  /\ UNCHANGED <<fixedVars, proc, qVars, poolVars, total_counter, num,
                 mainVars, localVars, histVars>>

\* mutant: the loop counts the threads without joining them
JoinNoWait ==
  /\ proc = "running" /\ pc[Main] = "join"
  /\ joined < numCPU
  /\ joined' = joined + 1
  /\ UNCHANGED <<fixedVars, proc, pc, qVars, poolVars, done, total_counter,
                 num, input, eof, node, total_numbers, newNode, output,
                 localVars, histVars>>

\* lines 245-247
Join ==
  /\ proc = "running" /\ pc[Main] = "join"
  /\ joined < numCPU
  /\ pc[joined + 1] = "exited"
  /\ joined' = joined + 1
  /\ UNCHANGED <<fixedVars, proc, pc, qVars, poolVars, done, total_counter,
                 num, input, eof, node, total_numbers, newNode, output, localVars,
                 histVars>>

\* mutant: main prints total_numbers instead of total_counter
ReportTotalNumbers ==
  /\ proc = "running" /\ pc[Main] = "join"
  /\ joined = numCPU
  /\ output' = Append(output, total_numbers)
  /\ Goto(Main, "cleanup")
  /\ UNCHANGED <<fixedVars, proc, qVars, poolVars, done, total_counter, num,
                 input, eof, node, total_numbers, joined, newNode, localVars,
                 histVars>>

\* line 249
Report ==
  /\ proc = "running" /\ pc[Main] = "join"
  /\ joined = numCPU
  /\ output' = Append(output, total_counter)
  /\ Goto(Main, "cleanup")
  /\ UNCHANGED <<fixedVars, proc, qVars, poolVars, done, total_counter, num,
                 input, eof, node, total_numbers, joined, newNode, localVars,
                 histVars>>

\* lines 252-257
Cleanup ==
  /\ proc = "running" /\ pc[Main] = "cleanup"
  /\ proc' = "finished"
  /\ Goto(Main, "returned")
  /\ UNCHANGED <<fixedVars, qVars, poolVars, done, total_counter, num,
                 mainVars, localVars, histVars>>

\* ----------------------------------------------------------- workers
AllLoads == {"head", "tail", "next"}

\* start (or restart) an iteration of dequeue's while (1); head, tail and
\* next are reloaded before they are used again
DeqIter(w) ==
  /\ Goto(w, "deq_loads")
  /\ todo' = [todo EXCEPT ![w] = AllLoads]
  /\ lhead' = [lhead EXCEPT ![w] = NULL]
  /\ ltail' = [ltail EXCEPT ![w] = NULL]
  /\ lnext' = [lnext EXCEPT ![w] = NULL]

\* mutant: the loop condition is !done && size > 0
LoopDoneAnd(w) ==
  /\ proc = "running" /\ pc[w] = "loop"
  /\ IF ~done
     THEN /\ Goto(w, "loop_size")
          /\ UNCHANGED <<todo, lhead, ltail, lnext>>
     ELSE /\ Goto(w, "exited")
          /\ UNCHANGED <<todo, lhead, ltail, lnext>>
  /\ UNCHANGED <<fixedVars, proc, qVars, poolVars, done, total_counter, num,
                 mainVars, lvalue, histVars>>

\* line 172, first operand
LoopDone(w) ==
  /\ proc = "running" /\ pc[w] = "loop"
  /\ IF ~done
     THEN DeqIter(w)
     ELSE /\ Goto(w, "loop_size")
          /\ UNCHANGED <<todo, lhead, ltail, lnext>>
  /\ UNCHANGED <<fixedVars, proc, qVars, poolVars, done, total_counter, num,
                 mainVars, lvalue, histVars>>

\* mutant: the loop condition is !done alone
LoopSizeIgnored(w) ==
  /\ proc = "running" /\ pc[w] = "loop_size"
  /\ Goto(w, "exited")
  /\ UNCHANGED <<fixedVars, proc, qVars, poolVars, done, total_counter, num,
                 mainVars, localVars, histVars>>

\* line 172, second operand
LoopSize(w) ==
  /\ proc = "running" /\ pc[w] = "loop_size"
  /\ IF size > 0
     THEN DeqIter(w)
     ELSE /\ Goto(w, "exited")
          /\ UNCHANGED <<todo, lhead, ltail, lnext>>
  /\ UNCHANGED <<fixedVars, proc, qVars, poolVars, done, total_counter, num,
                 mainVars, lvalue, histVars>>

AfterLoad(w, l) ==
  /\ todo' = [todo EXCEPT ![w] = @ \ {l}]
  /\ Goto(w, IF todo[w] = {l} THEN "deq_check" ELSE "deq_loads")

\* line 108
DequeueReadHead(w) ==
  /\ proc = "running" /\ pc[w] = "deq_loads" /\ "head" \in todo[w]
  /\ lhead' = [lhead EXCEPT ![w] = head]
  /\ AfterLoad(w, "head")
  /\ UNCHANGED <<fixedVars, proc, qVars, poolVars, done, total_counter, num,
                 mainVars, ltail, lnext, lvalue, histVars>>

\* line 109
DequeueReadTail(w) ==
  /\ proc = "running" /\ pc[w] = "deq_loads" /\ "tail" \in todo[w]
  /\ ltail' = [ltail EXCEPT ![w] = tail]
  /\ AfterLoad(w, "tail")
  /\ UNCHANGED <<fixedVars, proc, qVars, poolVars, done, total_counter, num,
                 mainVars, lhead, lnext, lvalue, histVars>>

\* line 110: needs the value of head
DequeueReadNext(w) ==
  /\ proc = "running" /\ pc[w] = "deq_loads" /\ "next" \in todo[w]
  /\ "head" \notin todo[w]
  /\ lnext' = [lnext EXCEPT ![w] = heap[lhead[w]].next]
  /\ AfterLoad(w, "next")
  /\ UNCHANGED <<fixedVars, proc, qVars, poolVars, done, total_counter, num,
                 mainVars, lhead, ltail, lvalue, histVars>>

\* lines 174-178: what the worker does with dequeue's result
AfterDequeue(n) ==
  IF n = EMPTY THEN "sleep" ELSE IF isPrime(n) THEN "count" ELSE "loop"

ClearLocals(w) ==
  /\ lhead' = [lhead EXCEPT ![w] = NULL]
  /\ ltail' = [ltail EXCEPT ![w] = NULL]
  /\ lnext' = [lnext EXCEPT ![w] = NULL]
  /\ lvalue' = [lvalue EXCEPT ![w] = 0]

\* lines 111-114: a plain re-read of queue->head, which the build may fold
DequeueCheck(w) ==
  /\ proc = "running" /\ pc[w] = "deq_check"
  /\ \E same \in {TRUE, lhead[w] = head} :
       IF ~same
       THEN /\ DeqIter(w)
            /\ UNCHANGED lvalue
       ELSE IF lhead[w] = ltail[w]
       THEN IF lnext[w] = NULL
            THEN /\ Goto(w, AfterDequeue(EMPTY))
                 /\ ClearLocals(w)
                 /\ UNCHANGED todo
            ELSE /\ Goto(w, "deq_help")
                 /\ UNCHANGED <<todo, lhead, ltail, lnext, lvalue>>
       ELSE /\ Goto(w, "deq_value")
            /\ UNCHANGED <<todo, lhead, ltail, lnext, lvalue>>
  /\ UNCHANGED <<fixedVars, proc, qVars, poolVars, done, total_counter, num,
                 mainVars, histVars>>

\* line 116
DequeueHelp(w) ==
  /\ proc = "running" /\ pc[w] = "deq_help"
  /\ tail' = IF tail = ltail[w] THEN lnext[w] ELSE tail
  /\ DeqIter(w)
  /\ UNCHANGED <<fixedVars, proc, head, size, heap, poolVars, done,
                 total_counter, num, mainVars, lvalue, histVars>>

\* line 118: next->value; next may be NULL when the loads were reordered
DequeueReadValue(w) ==
  /\ proc = "running" /\ pc[w] = "deq_value"
  /\ IF lnext[w] = NULL
     THEN /\ proc' = "segv"
          /\ UNCHANGED <<pc, lvalue>>
     ELSE /\ lvalue' = [lvalue EXCEPT ![w] = heap[lnext[w]].value]
          /\ Goto(w, "deq_cas")
          /\ UNCHANGED proc
  /\ UNCHANGED <<fixedVars, qVars, poolVars, done, total_counter, num,
                 mainVars, lhead, ltail, lnext, todo, histVars>>

\* mutant: head is stored without the compare
DequeueCasBlind(w) ==
  /\ proc = "running" /\ pc[w] = "deq_cas"
  /\ head' = lnext[w]
  /\ deqLog' = Append(deqLog, lnext[w])
  /\ advanced' = [advanced EXCEPT ![w] = TRUE]
  /\ Goto(w, "deq_dec")
  /\ UNCHANGED <<fixedVars, proc, tail, size, heap, poolVars, done,
                 total_counter, num, mainVars, localVars, linkLog, retCount>>

\* mutant: size is decremented also when the head CAS fails
DequeueCasDecOnFail(w) ==
  /\ proc = "running" /\ pc[w] = "deq_cas"
  /\ IF head = lhead[w]
     THEN /\ head' = lnext[w]
          /\ deqLog' = Append(deqLog, lnext[w])
          /\ advanced' = [advanced EXCEPT ![w] = TRUE]
          /\ Goto(w, "deq_dec")
          /\ UNCHANGED <<todo, lhead, ltail, lnext, lvalue, size>>
     ELSE /\ DeqIter(w)
          /\ lvalue' = [lvalue EXCEPT ![w] = 0]
          /\ size' = size - 1
          /\ UNCHANGED <<head, deqLog, advanced>>
  /\ UNCHANGED <<fixedVars, proc, tail, heap, poolVars, done,
                 total_counter, num, mainVars, linkLog, retCount>>

\* line 119
DequeueCas(w) ==
  /\ proc = "running" /\ pc[w] = "deq_cas"
  /\ IF head = lhead[w]
     THEN /\ head' = lnext[w]
          /\ deqLog' = Append(deqLog, lnext[w])
          /\ advanced' = [advanced EXCEPT ![w] = TRUE]
          /\ Goto(w, "deq_dec")
          /\ UNCHANGED <<todo, lhead, ltail, lnext, lvalue>>
     ELSE /\ DeqIter(w)
          /\ lvalue' = [lvalue EXCEPT ![w] = 0]
          /\ UNCHANGED <<head, deqLog, advanced>>
  /\ UNCHANGED <<fixedVars, proc, tail, size, heap, poolVars, done,
                 total_counter, num, mainVars, linkLog, retCount>>

\* mutant: the return path of dequeue leaves size alone
DequeueDecForgotten(w) ==
  /\ proc = "running" /\ pc[w] = "deq_dec"
  /\ retCount' = [retCount EXCEPT ![lnext[w]] = @ + 1]
  /\ Goto(w, AfterDequeue(lvalue[w]))
  /\ advanced' = [advanced EXCEPT ![w] = AfterDequeue(lvalue[w]) # "loop"]
  /\ ClearLocals(w)
  /\ UNCHANGED <<fixedVars, proc, head, tail, size, heap, poolVars, done,
                 total_counter, num, mainVars, todo, linkLog, deqLog>>

\* lines 120-122, 173-178: size--, return value; the worker tests it
DequeueDec(w) ==
  /\ proc = "running" /\ pc[w] = "deq_dec"
  /\ size' = size - 1
  /\ retCount' = [retCount EXCEPT ![lnext[w]] = @ + 1]
  /\ Goto(w, AfterDequeue(lvalue[w]))
  /\ advanced' = [advanced EXCEPT ![w] = AfterDequeue(lvalue[w]) # "loop"]
  /\ ClearLocals(w)
  /\ UNCHANGED <<fixedVars, proc, head, tail, heap, poolVars, done,
                 total_counter, num, mainVars, todo, linkLog, deqLog>>

\* line 175
Sleep(w) ==
  /\ proc = "running" /\ pc[w] = "sleep"
  /\ Goto(w, "loop")
  /\ advanced' = [advanced EXCEPT ![w] = FALSE]
  /\ UNCHANGED <<fixedVars, proc, qVars, poolVars, done, total_counter, num,
                 mainVars, localVars, linkLog, deqLog, retCount>>

\* line 179
Count(w) ==
  /\ proc = "running" /\ pc[w] = "count"
  /\ total_counter' = total_counter + 1
  /\ Goto(w, "loop")
  /\ advanced' = [advanced EXCEPT ![w] = FALSE]
  /\ UNCHANGED <<fixedVars, proc, qVars, poolVars, done, num, mainVars,
                 localVars, linkLog, deqLog, retCount>>

Next ==
  \/ ScanValue
  \/ ScanEOF
  \/ Backpressure
  \/ BackpressureSleep
  \/ AllocateNode
  \/ EnqueueMalloc
  \/ EnqueueReadTail
  \/ EnqueueReadNext
  \/ EnqueueCheck
  \/ EnqueueCas
  \/ EnqueueSwing
  \/ EnqueueInc
  \/ SetDone
  \/ Join
  \/ Report
  \/ Cleanup
  \/ \E w \in Workers : LoopDone(w)
  \/ \E w \in Workers : LoopSize(w)
  \/ \E w \in Workers : DequeueReadHead(w)
  \/ \E w \in Workers : DequeueReadTail(w)
  \/ \E w \in Workers : DequeueReadNext(w)
  \/ \E w \in Workers : DequeueCheck(w)
  \/ \E w \in Workers : DequeueHelp(w)
  \/ \E w \in Workers : DequeueReadValue(w)
  \/ \E w \in Workers : DequeueCas(w)
  \/ \E w \in Workers : DequeueDec(w)
  \/ \E w \in Workers : Sleep(w)
  \/ \E w \in Workers : Count(w)

Spec == Init /\ [][Next]_vars

\* ------------------------------------------------------- scheduling
\* The threads are scheduled preemptively by the OS: a thread that can take
\* a step eventually takes one.
MainStep ==
  \/ ScanValue \/ ScanEOF \/ Backpressure \/ BackpressureSleep
  \/ AllocateNode \/ EnqueueMalloc \/ EnqueueReadTail \/ EnqueueReadNext
  \/ EnqueueCheck \/ EnqueueCas \/ EnqueueSwing \/ EnqueueInc
  \/ SetDone \/ Join \/ Report \/ Cleanup

\* a build that performs the loads of lines 108-110 in program order
WorkerStepInOrder(w) ==
  /\ w \in Workers
  /\ \/ LoopDone(w) \/ LoopSize(w)
     \/ DequeueReadHead(w)
     \/ "head" \notin todo[w] /\ DequeueReadTail(w)
     \/ "tail" \notin todo[w] /\ DequeueReadNext(w)
     \/ DequeueCheck(w) \/ DequeueHelp(w) \/ DequeueReadValue(w)
     \/ DequeueCas(w) \/ DequeueDec(w) \/ Sleep(w) \/ Count(w)

NextInOrder == MainStep \/ \E w \in Workers : WorkerStepInOrder(w)

FairSpecInOrder ==
  /\ Init /\ [][NextInOrder]_vars
  /\ WF_vars(MainStep)
  /\ \A w \in 1..MaxWorkers : WF_vars(WorkerStepInOrder(w))

\* ------------------------------------------- several enqueuers (C11)
\* The queue driven the way its contract allows: NumProducers threads call
\* enqueue concurrently while the workers call dequeue.  main's input loop,
\* the pool and done are not part of it: done stays false.
NumProducers == 2
\* enqueue calls made in all when one worker dequeues; one call fewer for
\* every further worker
MaxEnq == 3

Producers == (MaxWorkers + 1)..(MaxWorkers + NumProducers)
MPThreads == 0..(MaxWorkers + NumProducers)

mainOther == <<input, eof, node, total_numbers, joined, output>>

CallCap == MaxEnq + 1 - numCPU

\* the values passed to enqueue: those a caller of dequeue can tell from
\* Empty (what a worker does with a value plays no part here)
MPValues == Values \ {EMPTY}

InitMP ==
  /\ input = << >>
  /\ eof = FALSE
  /\ numCPU \in 1..MaxWorkers
  /\ proc = "running"
  /\ pc = [t \in MPThreads |-> IF t \in Workers THEN "loop"
                               ELSE IF t \in Producers THEN "enq_call"
                               ELSE "none"]
  /\ head = Dummy /\ tail = Dummy /\ size = 0
  /\ heap = <<[value |-> 0, next |-> NULL]>>
  /\ poolIndex = 0
  /\ pool = << >>
  /\ done = FALSE
  /\ total_counter = 0
  /\ num = 0
  /\ node = 0
  /\ total_numbers = 0
  /\ joined = 0
  /\ newNode = [t \in MPThreads |-> NULL]
  /\ lhead = [t \in MPThreads |-> NULL]
  /\ ltail = [t \in MPThreads |-> NULL]
  /\ lnext = [t \in MPThreads |-> NULL]
  /\ lvalue = [t \in MPThreads |-> 0]
  /\ todo = [t \in MPThreads |-> {}]
  /\ output = << >>
  /\ linkLog = << >>
  /\ deqLog = << >>
  /\ retCount = [n \in 1..(MaxEnq + 1) |-> 0]
  /\ advanced = [t \in MPThreads |-> FALSE]
  /\ NoAllocators
  /\ NoBatch

\* lines 78-84: a call enqueue(queue, v)
MPEnqueueMalloc(p) ==
  /\ proc = "running" /\ pc[p] = "enq_call"
  /\ Len(heap) < CallCap + 1
  /\ \E v \in MPValues :
       heap' = Append(heap, [value |-> v, next |-> NULL])
  /\ newNode' = [newNode EXCEPT ![p] = Len(heap) + 1]
  /\ Goto(p, "enq_tail")
  /\ UNCHANGED <<fixedVars, proc, head, tail, size, poolVars, done,
                 total_counter, num, mainOther, localVars, histVars>>

\* line 88
MPEnqueueReadTail(p) ==
  /\ proc = "running" /\ pc[p] = "enq_tail"
  /\ ltail' = [ltail EXCEPT ![p] = tail]
  /\ Goto(p, "enq_next")
  /\ UNCHANGED <<fixedVars, proc, qVars, poolVars, done, total_counter, num,
                 mainVars, lhead, lnext, lvalue, todo, histVars>>

\* line 89
MPEnqueueReadNext(p) ==
  /\ proc = "running" /\ pc[p] = "enq_next"
  /\ lnext' = [lnext EXCEPT ![p] = heap[ltail[p]].next]
  /\ Goto(p, "enq_check")
  /\ UNCHANGED <<fixedVars, proc, qVars, poolVars, done, total_counter, num,
                 mainVars, lhead, ltail, lvalue, todo, histVars>>

\* lines 90-91: a plain re-read of queue->tail, which the build may fold
MPEnqueueCheck(p) ==
  /\ proc = "running" /\ pc[p] = "enq_check"
  /\ \E same \in {TRUE, ltail[p] = tail} :
       Goto(p, IF ~same THEN "enq_tail"
               ELSE IF lnext[p] = NULL THEN "enq_link" ELSE "enq_help")
  /\ UNCHANGED <<fixedVars, proc, qVars, poolVars, done, total_counter, num,
                 mainVars, localVars, histVars>>

\* mutant: tail->next is stored without the compare
MPEnqueueLinkBlind(p) ==
  /\ proc = "running" /\ pc[p] = "enq_link"
  /\ heap' = [heap EXCEPT ![ltail[p]].next = newNode[p]]
  /\ linkLog' = Append(linkLog, newNode[p])
  /\ Goto(p, "enq_swing")
  /\ UNCHANGED <<fixedVars, proc, head, tail, size, poolVars, done,
                 total_counter, num, mainVars, localVars, deqLog, retCount,
                 advanced>>

\* line 92
MPEnqueueLink(p) ==
  /\ proc = "running" /\ pc[p] = "enq_link"
  /\ IF heap[ltail[p]].next = lnext[p]
     THEN /\ heap' = [heap EXCEPT ![ltail[p]].next = newNode[p]]
          /\ linkLog' = Append(linkLog, newNode[p])
          /\ Goto(p, "enq_swing")
     ELSE /\ Goto(p, "enq_tail")
          /\ UNCHANGED <<heap, linkLog>>
  /\ UNCHANGED <<fixedVars, proc, head, tail, size, poolVars, done,
                 total_counter, num, mainVars, localVars, deqLog, retCount,
                 advanced>>

\* line 98
MPEnqueueHelp(p) ==
  /\ proc = "running" /\ pc[p] = "enq_help"
  /\ tail' = IF tail = ltail[p] THEN lnext[p] ELSE tail
  /\ Goto(p, "enq_tail")
  /\ UNCHANGED <<fixedVars, proc, head, size, heap, poolVars, done,
                 total_counter, num, mainVars, localVars, histVars>>

\* line 93
MPEnqueueSwing(p) ==
  /\ proc = "running" /\ pc[p] = "enq_swing"
  /\ tail' = IF tail = ltail[p] THEN newNode[p] ELSE tail
  /\ Goto(p, "enq_inc")
  /\ UNCHANGED <<fixedVars, proc, head, size, heap, poolVars, done,
                 total_counter, num, mainVars, localVars, histVars>>

\* lines 94-95: size++, return
MPEnqueueInc(p) ==
  /\ proc = "running" /\ pc[p] = "enq_inc"
  /\ size' = size + 1
  /\ newNode' = [newNode EXCEPT ![p] = NULL]
  /\ ltail' = [ltail EXCEPT ![p] = NULL]
  /\ lnext' = [lnext EXCEPT ![p] = NULL]
  /\ Goto(p, "enq_call")
  /\ UNCHANGED <<fixedVars, proc, head, tail, heap, poolVars, done,
                 total_counter, num, mainOther, lhead, lvalue, todo,
                 histVars>>

NextMP ==
  \/ \E p \in Producers : MPEnqueueMalloc(p)
  \/ \E p \in Producers : MPEnqueueReadTail(p)
  \/ \E p \in Producers : MPEnqueueReadNext(p)
  \/ \E p \in Producers : MPEnqueueCheck(p)
  \/ \E p \in Producers : MPEnqueueLink(p)
  \/ \E p \in Producers : MPEnqueueHelp(p)
  \/ \E p \in Producers : MPEnqueueSwing(p)
  \/ \E p \in Producers : MPEnqueueInc(p)
  \/ \E w \in Workers : LoopDone(w)
  \/ \E w \in Workers : DequeueReadHead(w)
  \/ \E w \in Workers : DequeueReadTail(w)
  \/ \E w \in Workers : DequeueReadNext(w)
  \/ \E w \in Workers : DequeueCheck(w)
  \/ \E w \in Workers : DequeueHelp(w)
  \/ \E w \in Workers : DequeueReadValue(w)
  \/ \E w \in Workers : DequeueCas(w)
  \/ \E w \in Workers : DequeueDec(w)
  \/ \E w \in Workers : Sleep(w)
  \/ \E w \in Workers : Count(w)

SpecMP == InitMP /\ [][NextMP]_vars

\* One thread that keeps being scheduled while every other thread may stop
\* for ever at any point, inside enqueue or dequeue included.
ProducerStep(p) ==
  \/ MPEnqueueMalloc(p) \/ MPEnqueueReadTail(p) \/ MPEnqueueReadNext(p)
  \/ MPEnqueueCheck(p) \/ MPEnqueueLink(p) \/ MPEnqueueHelp(p)
  \/ MPEnqueueSwing(p) \/ MPEnqueueInc(p)

WorkerStepMP(w) ==
  \/ LoopDone(w)
  \/ DequeueReadHead(w) \/ DequeueReadTail(w) \/ DequeueReadNext(w)
  \/ DequeueCheck(w) \/ DequeueHelp(w) \/ DequeueReadValue(w)
  \/ DequeueCas(w) \/ DequeueDec(w) \/ Sleep(w) \/ Count(w)

FirstProducer == MaxWorkers + 1

FairSpecOneEnqueuer == SpecMP /\ WF_vars(ProducerStep(FirstProducer))
FairSpecOneDequeuer == SpecMP /\ WF_vars(WorkerStepMP(1))

\* the same on a build that performs the loads of lines 108-110 in program
\* order
NextMPInOrder ==
  \/ \E p \in Producers : ProducerStep(p)
  \/ \E w \in Workers : WorkerStepInOrder(w)

FairSpecOneEnqueuerInOrder ==
  /\ InitMP /\ [][NextMPInOrder]_vars
  /\ WF_vars(ProducerStep(FirstProducer))

FairSpecOneDequeuerInOrder ==
  /\ InitMP /\ [][NextMPInOrder]_vars
  /\ WF_vars(WorkerStepInOrder(1))

\* ------------------------------------- allocateNode, several callers (C14)
\* allocateNode is called by main only; its contract covers concurrent
\* callers.  Here NumAllocators threads call it, one step per shared access:
\* the fetch_add of line 146, the test of line 147, and the caller's store
\* into the slot it was given (line 236).
NumAllocators == 2
Allocators == 1..NumAllocators
ArenaThreads == 0..NumAllocators

InitArena ==
  /\ input = << >>
  /\ eof = FALSE
  /\ numCPU = NumAllocators
  /\ proc = "running"
  /\ pc = [t \in ArenaThreads |-> IF t \in Allocators THEN "alloc_call" ELSE "none"]
  /\ head = Dummy /\ tail = Dummy /\ size = 0
  /\ heap = <<[value |-> 0, next |-> NULL]>>
  /\ poolIndex = 0
  /\ pool = [i \in 1..MEMORY_POOL_SIZE |-> 0]
  /\ done = FALSE
  /\ total_counter = 0
  /\ num = 0
  /\ node = 0
  /\ total_numbers = 0
  /\ joined = 0
  /\ newNode = [t \in ArenaThreads |-> NULL]
  /\ lhead = [t \in ArenaThreads |-> NULL]
  /\ ltail = [t \in ArenaThreads |-> NULL]
  /\ lnext = [t \in ArenaThreads |-> NULL]
  /\ lvalue = [t \in ArenaThreads |-> 0]
  /\ todo = [t \in ArenaThreads |-> {}]
  /\ output = << >>
  /\ linkLog = << >>
  /\ deqLog = << >>
  /\ retCount = [n \in 1..(MaxLen + 1) |-> 0]
  /\ advanced = [t \in ArenaThreads |-> FALSE]
  /\ idx = [t \in ArenaThreads |-> 0]
  /\ claimLog = << >>
  /\ NoBatch

arenaOther == <<numCPU, qVars, done, total_counter, num, mainVars, localVars,
                histVars, batchVars>>

\* line 146: int idx = atomic_fetch_add(&pool->index, 1)
AllocFetchAdd(t) ==
  /\ proc = "running" /\ pc[t] = "alloc_call"
  /\ idx' = [idx EXCEPT ![t] = poolIndex]
  /\ poolIndex' = poolIndex + 1
  /\ claimLog' = Append(claimLog, poolIndex)
  /\ Goto(t, "alloc_test")
  /\ UNCHANGED <<arenaOther, proc, pool>>

\* mutant: the bound test is > instead of >=
AllocTestOffByOne(t) ==
  /\ proc = "running" /\ pc[t] = "alloc_test"
  /\ IF idx[t] > MEMORY_POOL_SIZE
     THEN proc' = "exhausted" /\ UNCHANGED pc
     ELSE Goto(t, "alloc_init") /\ UNCHANGED proc
  /\ UNCHANGED <<arenaOther, poolVars, arenaVars>>

\* lines 147-151: exit(EXIT_FAILURE), or return &pool->nodes[idx]
AllocTest(t) ==
  /\ proc = "running" /\ pc[t] = "alloc_test"
  /\ IF idx[t] >= MEMORY_POOL_SIZE
     THEN proc' = "exhausted" /\ UNCHANGED pc
     ELSE Goto(t, "alloc_init") /\ UNCHANGED proc
  /\ UNCHANGED <<arenaOther, poolVars, arenaVars>>

\* line 236: the caller initialises the slot it was given
AllocInit(t) ==
  /\ proc = "running" /\ pc[t] = "alloc_init"
  /\ \E v \in Values : pool' = [pool EXCEPT ![idx[t] + 1] = v]
  /\ Goto(t, "alloc_call")
  /\ UNCHANGED <<arenaOther, proc, poolIndex, arenaVars>>

NextArena ==
  \/ \E t \in Allocators : AllocFetchAdd(t)
  \/ \E t \in Allocators : AllocTest(t)
  \/ \E t \in Allocators : AllocInit(t)

SpecArena == InitArena /\ [][NextArena]_vars

\* --------------------------------------- the batch counter of part_000 (C19)
\* main buffers the input and, for every full buffer and for the rest at
\* EOF, starts MAX_THREADS threads that count the primes of their range and
\* add their count to prime_count under a mutex.  Both constants are scaled
\* down from the source (4 and 1024); BUFFER_SIZE stays a multiple of
\* MAX_THREADS as in the source.
MAX_THREADS == 2
BUFFER_SIZE == 4
\* values read in all: one full buffer and a rest of up to BUFFER_SIZE - 1
MaxBatchInput == 7

BatchThreads == 1..MAX_THREADS

InitBatch ==
  /\ input = << >>
  /\ eof = FALSE
  /\ numCPU = MAX_THREADS
  /\ proc = "running"
  /\ pc = [t \in 0..MAX_THREADS |-> IF t = Main THEN "b_scan" ELSE "idle"]
  /\ head = Dummy /\ tail = Dummy /\ size = 0
  /\ heap = <<[value |-> 0, next |-> NULL]>>
  /\ poolIndex = 0
  /\ pool = << >>
  /\ done = FALSE
  /\ total_counter = 0
  /\ num = 0
  /\ node = 0
  /\ total_numbers = 0
  /\ joined = 0
  /\ newNode = [t \in Threads |-> NULL]
  /\ lhead = [t \in Threads |-> NULL]
  /\ ltail = [t \in Threads |-> NULL]
  /\ lnext = [t \in Threads |-> NULL]
  /\ lvalue = [t \in Threads |-> 0]
  /\ todo = [t \in Threads |-> {}]
  /\ output = << >>
  /\ linkLog = << >>
  /\ deqLog = << >>
  /\ retCount = [n \in 1..(MaxLen + 1) |-> 0]
  /\ advanced = [t \in Threads |-> FALSE]
  /\ NoAllocators
  /\ buffer = [k \in 1..BUFFER_SIZE |-> 0]
  /\ index = 0
  /\ prime_count = 0
  /\ thread_data = [t \in BatchThreads |-> [start |-> 0, end |-> 0]]
  /\ mutex = NULL
  /\ count = [t \in BatchThreads |-> 0]
  /\ ci = [t \in BatchThreads |-> 0]
  /\ acc = [t \in BatchThreads |-> 0]

\* what the batch counter does not have
batchOther == <<numCPU, arenaVars, qVars, poolVars, done, total_counter, node,
                total_numbers, newNode, localVars, histVars>>

\* line 79: scanf delivers the next integer, or EOF
BScanValue ==
  /\ proc = "running" /\ pc[Main] = "b_scan"
  /\ Len(input) < MaxBatchInput
  /\ \E v \in Values :
       /\ num' = v
       /\ input' = Append(input, v)
  /\ Goto(Main, "b_store")
  /\ UNCHANGED <<batchOther, batchVars, proc, eof, output, joined>>

BScanEOF ==
  /\ proc = "running" /\ pc[Main] = "b_scan"
  /\ eof' = TRUE
  /\ Goto(Main, "b_rest")
  /\ UNCHANGED <<batchOther, batchVars, proc, input, num, output, joined>>

\* lines 80-82: buffer[index++] = num; if (index == BUFFER_SIZE)
BStore ==
  /\ proc = "running" /\ pc[Main] = "b_store"
  /\ buffer' = [buffer EXCEPT ![index + 1] = num]
  /\ index' = index + 1
  /\ Goto(Main, IF index + 1 = BUFFER_SIZE THEN "b_create_full" ELSE "b_scan")
  /\ UNCHANGED <<batchOther, proc, input, eof, num, output, joined,
                 prime_count, thread_data, mutex, count, ci, acc>>

\* pthread_create: the thread starts countPrimes with count = 0 and i = start
StartThread(t, first, last) ==
  /\ thread_data' = [thread_data EXCEPT ![t] = [start |-> first, end |-> last]]
  /\ count' = [count EXCEPT ![t] = 0]
  /\ ci' = [ci EXCEPT ![t] = first]
  /\ pc' = [pc EXCEPT ![t] = "cp_loop",
                      ![Main] = IF t = MAX_THREADS THEN "b_join" ELSE @]
  /\ joined' = 0

\* the thread the creation loop is at: the first one not yet started
NextToCreate == CHOOSE t \in BatchThreads :
                  pc[t] = "idle" /\ \A u \in 1..(t - 1) : pc[u] # "idle"

\* mutant: the last thread of the rest gets the same end as the others
BCreateRestNoTail ==
  /\ proc = "running" /\ pc[Main] = "b_create_rest"
  /\ LET chunk_size == index \div MAX_THREADS
         t == NextToCreate
     IN  StartThread(t, (t - 1) * chunk_size, t * chunk_size)
  /\ UNCHANGED <<batchOther, proc, input, eof, num, output, buffer, index,
                 prime_count, mutex, acc>>

\* lines 83-92: one iteration of the creation loop for a full buffer
BCreateFull ==
  /\ proc = "running" /\ pc[Main] = "b_create_full"
  /\ LET chunk_size == BUFFER_SIZE \div MAX_THREADS
         t == NextToCreate
     IN  StartThread(t, (t - 1) * chunk_size, t * chunk_size)
  /\ UNCHANGED <<batchOther, proc, input, eof, num, output, buffer, index,
                 prime_count, mutex, acc>>

\* line 102: if (index > 0)
BRest ==
  /\ proc = "running" /\ pc[Main] = "b_rest"
  /\ Goto(Main, IF index > 0 THEN "b_create_rest" ELSE "b_print")
  /\ UNCHANGED <<batchOther, batchVars, proc, input, eof, num, output,
                 joined>>

\* lines 103-115: one iteration of the creation loop for the rest
BCreateRest ==
  /\ proc = "running" /\ pc[Main] = "b_create_rest"
  /\ LET chunk_size == index \div MAX_THREADS
         t == NextToCreate
     IN  StartThread(t, (t - 1) * chunk_size,
                     IF t = MAX_THREADS THEN index ELSE t * chunk_size)
  /\ UNCHANGED <<batchOther, proc, input, eof, num, output, buffer, index,
                 prime_count, mutex, acc>>

\* lines 94-96 and 117-119: pthread_join of the next thread
BJoin ==
  /\ proc = "running" /\ pc[Main] = "b_join"
  /\ joined < MAX_THREADS
  /\ pc[joined + 1] = "cp_returned"
  /\ joined' = joined + 1
  /\ pc' = [pc EXCEPT ![joined + 1] = "idle"]
  /\ UNCHANGED <<batchOther, batchVars, proc, input, eof, num, output>>

\* line 98 after a full buffer (index = 0), line 120 after the rest
BAfterJoin ==
  /\ proc = "running" /\ pc[Main] = "b_join"
  /\ joined = MAX_THREADS
  /\ IF eof
     THEN Goto(Main, "b_print") /\ UNCHANGED index
     ELSE Goto(Main, "b_scan") /\ index' = 0
  /\ UNCHANGED <<batchOther, proc, input, eof, num, output, joined, buffer,
                 prime_count, thread_data, mutex, count, ci, acc>>

\* line 122
BPrint ==
  /\ proc = "running" /\ pc[Main] = "b_print"
  /\ output' = Append(output, prime_count)
  /\ proc' = "finished"
  /\ Goto(Main, "returned")
  /\ UNCHANGED <<batchOther, batchVars, input, eof, num, joined>>

\* lines 34-38: one test of the loop condition, and one iteration
CountLoop(t) ==
  /\ proc = "running" /\ pc[t] = "cp_loop"
  /\ IF ci[t] < thread_data[t].end
     THEN /\ count' = [count EXCEPT ![t] =
                         IF isPrime(buffer[ci[t] + 1]) THEN @ + 1 ELSE @]
          /\ ci' = [ci EXCEPT ![t] = @ + 1]
          /\ UNCHANGED pc
     ELSE /\ Goto(t, "cp_lock")
          /\ UNCHANGED <<count, ci>>
  /\ UNCHANGED <<batchOther, proc, input, eof, num, output, joined, buffer,
                 index, prime_count, thread_data, mutex, acc>>

\* mutant: the thread does not wait for the mutex
MutexLockNoWait(t) ==
  /\ proc = "running" /\ pc[t] = "cp_lock"
  /\ mutex' = t
  /\ Goto(t, "cp_load")
  /\ UNCHANGED <<batchOther, proc, input, eof, num, output, joined, buffer,
                 index, prime_count, thread_data, count, ci, acc>>

\* line 40
MutexLock(t) ==
  /\ proc = "running" /\ pc[t] = "cp_lock"
  /\ mutex = NULL
  /\ mutex' = t
  /\ Goto(t, "cp_load")
  /\ UNCHANGED <<batchOther, proc, input, eof, num, output, joined, buffer,
                 index, prime_count, thread_data, count, ci, acc>>

\* line 41, the load of *prime_count
AddLoad(t) ==
  /\ proc = "running" /\ pc[t] = "cp_load"
  /\ acc' = [acc EXCEPT ![t] = prime_count]
  /\ Goto(t, "cp_store")
  /\ UNCHANGED <<batchOther, proc, input, eof, num, output, joined, buffer,
                 index, prime_count, thread_data, mutex, count, ci>>

\* line 41, the store of the sum
AddStore(t) ==
  /\ proc = "running" /\ pc[t] = "cp_store"
  /\ prime_count' = acc[t] + count[t]
  /\ Goto(t, "cp_unlock")
  /\ UNCHANGED <<batchOther, proc, input, eof, num, output, joined, buffer,
                 index, thread_data, mutex, count, ci, acc>>

\* lines 42-44
MutexUnlock(t) ==
  /\ proc = "running" /\ pc[t] = "cp_unlock"
  /\ mutex' = NULL
  /\ Goto(t, "cp_returned")
  /\ UNCHANGED <<batchOther, proc, input, eof, num, output, joined, buffer,
                 index, prime_count, thread_data, count, ci, acc>>

NextBatch ==
  \/ BScanValue
  \/ BScanEOF
  \/ BStore
  \/ BCreateFull
  \/ BRest
  \/ BCreateRest
  \/ BJoin
  \/ BAfterJoin
  \/ BPrint
  \/ \E t \in BatchThreads : CountLoop(t)
  \/ \E t \in BatchThreads : MutexLock(t)
  \/ \E t \in BatchThreads : AddLoad(t)
  \/ \E t \in BatchThreads : AddStore(t)
  \/ \E t \in BatchThreads : MutexUnlock(t)

SpecBatch == InitBatch /\ [][NextBatch]_vars

\* ------------------------------------------------------------ claims
Range(s) == {s[i] : i \in 1..Len(s)}

AllExited == \A w \in Workers : pc[w] = "exited"

\* the nodes enqueue created, in the order of the calls
Enqueued == 2..Len(heap)

\* number of nodes linked behind node n
RECURSIVE ChainLen(_)
ChainLen(n) == IF heap[n].next = NULL THEN 0 ELSE 1 + ChainLen(heap[n].next)

PrimeCount(s) == Cardinality({i \in 1..Len(s) : isPrime(s[i])})

\* C1 (conservation): no node is removed by two head CASes, no node's value
\* is returned by two dequeue calls, only linked nodes are removed, the value
\* a dequeue returns is the value that was passed to enqueue, and once all
\* workers have exited every input value has been passed to enqueue and
\* returned by exactly one dequeue that advanced head.
C1_Conservation ==
  /\ \A n \in DOMAIN retCount : retCount[n] <= 1
  /\ \A i, j \in 1..Len(deqLog) : deqLog[i] = deqLog[j] => i = j
  /\ Range(deqLog) \subseteq Range(linkLog)
  /\ \A n \in Enqueued : heap[n].value = input[n - 1]
  /\ \A w \in Workers :
       pc[w] = "deq_dec" => lvalue[w] = input[lnext[w] - 1]
  /\ AllExited =>
       /\ Len(heap) - 1 = Len(input)
       /\ \A n \in Enqueued : retCount[n] = 1 /\ n \in Range(deqLog)

C1_Witness ==
  AllExited /\ numCPU = 2 /\ Len(input) = 3 /\ Len(deqLog) = 3

\* C2 (count correctness): what main prints is the number of input elements
\* for which isPrime holds, whatever the number of workers.
C2_CountCorrect ==
  \A i \in 1..Len(output) : output[i] = PrimeCount(input)

C2_Witness ==
  /\ numCPU = 2 /\ input = <<29, -1, 29>> /\ output = <<2>>

\* C3 (drain safety): a worker that has left its loop has left it with done
\* set, with no linked node undequeued, and with every value the producer
\* read already linked.
C3_DrainSafety ==
  \A w \in Workers :
    pc[w] = "exited" =>
      /\ done
      /\ heap[head].next = NULL
      /\ eof /\ pc[Main] \in {"join", "cleanup", "returned"}
      /\ Len(linkLog) = Len(input)

C3_Witness ==
  /\ numCPU = 2 /\ pc[1] = "exited" /\ pc[2] = "sleep"
  /\ Len(deqLog) = 2

\* C4 (termination): a run whose input fits the arena does not stop before
\* main has reported the total.  Violated: a worker can dereference NULL.
C4_NoHaltBeforeReport ==
  (Len(input) <= MEMORY_POOL_SIZE /\ ~ENABLED Next) =>
    (proc = "finished" /\ Len(output) = 1)

\* Lemma for C4: under FairSpecInOrder, where every dequeue performs its
\* loads in program order, every run ends with the report or with the
\* exhaustion abort.
C4_InOrderTerminates == <>(proc = "finished" \/ proc = "exhausted")

IsPrefix(s, t) == Len(s) <= Len(t) /\ s = SubSeq(t, 1, Len(s))

\* C5 (FIFO): the nodes removed by head CASes, in CAS order, are a prefix of
\* the nodes in link order, and their values are a prefix of the input.
C5_FIFO ==
  /\ IsPrefix(deqLog, linkLog)
  /\ IsPrefix([i \in 1..Len(deqLog) |-> heap[deqLog[i]].value], input)

C5_Witness ==
  /\ numCPU = 2 /\ Len(deqLog) = 3 /\ input[1] # input[2]
  /\ input[2] # input[3]

\* C6 (Empty): a worker treats a dequeue call as Empty (it sleeps) only if
\* that call removed nothing.  Violated for a node carrying -1.
C6_EmptyOnlyIfNothingRemoved ==
  \A w \in Workers : pc[w] = "sleep" => ~advanced[w]

InFlight ==
  IF pc[Main] \in {"alloc", "enq_malloc", "enq_tail", "enq_next", "enq_check",
                   "enq_link", "enq_help", "enq_swing", "enq_inc"}
  THEN 1 ELSE 0

\* C8 (backpressure bound): size is at most MAX_QUEUE_SIZE plus the producer
\* in flight, in fact at most MAX_QUEUE_SIZE, and so is the number of linked
\* nodes not yet dequeued.
C8_BackpressureBound ==
  /\ size <= MAX_QUEUE_SIZE + InFlight
  /\ size <= MAX_QUEUE_SIZE
  /\ ChainLen(head) <= MAX_QUEUE_SIZE

C8_Witness ==
  /\ Len(linkLog) = 3 /\ size = MAX_QUEUE_SIZE
  /\ ChainLen(head) = MAX_QUEUE_SIZE

\* C9 (done): done is written once, false to true, by main at line 242;
\* whenever it is set the input is exhausted, every value read has been
\* linked and counted in size, and main is past its last enqueue.
C9_DoneOnce ==
  /\ [](done => /\ eof
                /\ pc[Main] \in {"join", "cleanup", "returned"}
                /\ Len(linkLog) = Len(input)
                /\ total_numbers = Len(input))
  /\ [][done' # done => ~done /\ done' /\ pc[Main] = "set_done"
                         /\ pc'[Main] = "join"]_vars

C9_Witness ==
  /\ done /\ Len(input) = 3 /\ numCPU = 2 /\ pc[1] = "deq_cas"

\* C10 (report): main prints at most once, exactly once in a finished run,
\* only with done set and every worker out of its loop, and total_counter
\* keeps the printed value.
C10_ReportOnce ==
  /\ Len(output) <= 1
  /\ proc = "finished" => Len(output) = 1
  /\ output # << >> => done /\ AllExited /\ total_counter = output[1]

C10_Witness ==
  /\ proc = "finished" /\ numCPU = 2 /\ output = <<3>>

\* the nodes reached from n by following next, n included; fuel bounds the
\* walk so that a cycle shows as a list longer than the heap
RECURSIVE ChainFrom(_, _)
ChainFrom(n, fuel) ==
  IF n = NULL \/ fuel = 0 THEN << >>
  ELSE <<n>> \o ChainFrom(heap[n].next, fuel - 1)

NoDuplicates(s) == \A i, j \in 1..Len(s) : s[i] = s[j] => i = j

\* enqueue calls that have linked their node but not yet incremented size
LinkedNotCounted(T) == Cardinality({t \in T : pc[t] \in {"enq_swing", "enq_inc"}})

\* dequeue calls that have advanced head but not yet decremented size
RemovedNotCounted == Cardinality({w \in Workers : pc[w] = "deq_dec"})

\* C11 (several enqueuers): with NumProducers threads inside enqueue at once,
\* every call links its node exactly once (a node is in the link order once,
\* a call past its link CAS has its node linked, a call before it has not,
\* every node of a returned call is linked); the chain from the first
\* sentinel is exactly that sentinel followed by the nodes in link order, so
\* it is one acyclic list ending in NULL and no link is overwritten or
\* undone; size was incremented once per linked node
\* whose call is past line 94.
C11_MultiEnqueue ==
  /\ NoDuplicates(linkLog)
  /\ Range(linkLog) \subseteq Enqueued
  /\ \A p \in Producers :
       /\ pc[p] \in {"enq_swing", "enq_inc"} => newNode[p] \in Range(linkLog)
       /\ pc[p] \in {"enq_tail", "enq_next", "enq_check", "enq_link",
                     "enq_help"} => newNode[p] \notin Range(linkLog)
  /\ \A n \in Enqueued :
       (\A p \in Producers : newNode[p] # n) => n \in Range(linkLog)
  /\ ChainFrom(Dummy, Len(heap) + 1) = <<Dummy>> \o linkLog
  /\ size = (Len(linkLog) - LinkedNotCounted(Producers))
            - (Len(deqLog) - RemovedNotCounted)

\* two nodes are linked; one producer is about to swing tail to its node,
\* the other, inside its own call, found tail lagging behind that node and
\* is about to help
C11_Witness ==
  /\ Len(linkLog) = 2
  /\ \E p, q \in Producers :
       /\ p # q /\ pc[p] = "enq_help" /\ pc[q] = "enq_swing"
       /\ lnext[p] = newNode[q]

\* the Nodes obtained from malloc (createQueue line 63, enqueue line 78);
\* the Nodes of the pool are the elements of pool, addressed by their index
MallocNodes == 1..Len(heap)

\* C12 (arena node is the linked node): every node linked behind the first
\* sentinel is the pool slot allocateNode handed out, none is a Node from
\* malloc.  Violated: enqueue links a Node it malloc'ed itself and copies the
\* slot's value into it; the slot is never linked.
C12_LinkedNodesAreArenaSlots ==
  \A i \in 1..Len(linkLog) : linkLog[i] \notin MallocNodes

EnqueuePcs == {"enq_malloc", "enq_tail", "enq_next", "enq_check", "enq_link",
               "enq_help", "enq_swing", "enq_inc"}
DequeuePcs == {"deq_loads", "deq_check", "deq_help", "deq_value", "deq_cas",
               "deq_dec"}

\* no thread is inside enqueue or dequeue
Quiescent == \A t \in DOMAIN pc : pc[t] \notin EnqueuePcs \cup DequeuePcs

\* C13 (size at quiescence): size is the number of link CASes whose call
\* is past line 94 minus the number of head CASes whose call is past line
\* 120, so it moves once per link and once per removal; when no thread is
\* inside enqueue or dequeue it is the number of nodes behind head.
C13_SizeAtQuiescence ==
  /\ size = (Len(linkLog) - LinkedNotCounted(DOMAIN pc))
            - (Len(deqLog) - RemovedNotCounted)
  /\ Quiescent => size = ChainLen(head)

\* quiescent with nodes both removed and still linked
C13_Witness ==
  /\ Quiescent /\ numCPU = 2 /\ size = 2 /\ Len(deqLog) = 1
  /\ ChainLen(head) = 2

\* C14 (arena index): the index only grows; the k-th fetch_add claims index
\* k - 1, so no two calls claim the same index, also with NumAllocators
\* threads inside allocateNode at once; a call that returned a slot holds an
\* index below MEMORY_POOL_SIZE; a call that claimed an index at or above it
\* does not return: its only step is the exit, and the process has exited
\* only through such a call.
C14_ArenaIndex ==
  /\ [](/\ poolIndex = Len(claimLog)
        /\ \A k \in 1..Len(claimLog) : claimLog[k] = k - 1
        /\ \A t, u \in Allocators :
             (t # u /\ pc[t] # "alloc_call" /\ pc[u] # "alloc_call")
               => idx[t] # idx[u]
        /\ \A t \in Allocators :
             pc[t] = "alloc_init" => idx[t] \in 0..(MEMORY_POOL_SIZE - 1)
        /\ proc = "exhausted" =>
             \E t \in Allocators :
               pc[t] = "alloc_test" /\ idx[t] >= MEMORY_POOL_SIZE)
  /\ [][/\ poolIndex' >= poolIndex
        /\ \A t \in Allocators :
             (pc[t] = "alloc_test" /\ idx[t] >= MEMORY_POOL_SIZE)
               => pc'[t] = "alloc_test"]_vars

\* the process has exited with both threads holding an index past the pool,
\* after every slot was handed out and initialised
C14_Witness ==
  /\ proc = "exhausted"
  /\ \A t \in Allocators : pc[t] = "alloc_test" /\ idx[t] >= MEMORY_POOL_SIZE
  /\ \A k \in 1..MEMORY_POOL_SIZE : pool[k] # 0

\* C15 (structure): head is the first sentinel or a node a head CAS removed
\* (the last one removed); tail is on the chain from head, so head has not
\* overtaken tail; tail is the last node of the chain or the one before it.
\* Violated: a dequeue that loaded queue->tail before queue->head moves head
\* past tail.
C15_Structure ==
  /\ head = (IF deqLog = << >> THEN Dummy ELSE deqLog[Len(deqLog)])
  /\ tail \in Range(ChainFrom(head, Len(heap) + 1))
  /\ \/ heap[tail].next = NULL
     \/ heap[heap[tail].next].next = NULL

\* C16 (non-blocking progress): a thread that keeps being scheduled returns
\* from every dequeue call it starts, whatever the other threads do: run,
\* stop for ever inside enqueue or dequeue, or take no further step at all.
\* Checked under FairSpecOneDequeuer, where worker 1 alone is guaranteed to
\* run.  Violated: the call can end in the NULL dereference of line 118.
C16_DequeueReturns ==
  [](pc[1] \in DequeuePcs => <>(pc[1] \notin DequeuePcs))

\* the same for a thread inside enqueue, under FairSpecOneEnqueuer
C16_EnqueueReturns ==
  [](pc[FirstProducer] \in EnqueuePcs
       => <>(pc[FirstProducer] \notin EnqueuePcs))

\* C17 (done implies size covers the queue): whenever done is set, size is
\* at least the number of nodes linked behind head, so a worker that has
\* read done = true and then reads size <= 0 leaves no node behind.
C17_DoneSizeCovers ==
  /\ done => size >= ChainLen(head)
  /\ \A w \in Workers :
       (pc[w] = "loop_size" /\ size <= 0) => heap[head].next = NULL

\* done is set, a node is still linked and size counts more than the chain:
\* one worker is between its head CAS and its fetch_sub
C17_Witness ==
  /\ done /\ ChainLen(head) = 1 /\ size = 2
  /\ \E w \in Workers : pc[w] = "loop_size"

\* C18 (size >= -1): with the one producer size never goes below -1, and it
\* is negative only while main is between its link CAS (line 92) and its
\* fetch_add on size (line 94).
C18_SizeLowerBound ==
  /\ size >= -1
  /\ size < 0 => pc[Main] \in {"enq_swing", "enq_inc"}

\* a worker removed and counted the node main has linked but not yet counted
C18_Witness ==
  /\ size = -1 /\ pc[Main] = "enq_inc" /\ Len(deqLog) = 2
  /\ \A w \in Workers : pc[w] # "deq_dec"

\* the buffer positions given to thread t
RangeOf(t) == thread_data[t].start..(thread_data[t].end - 1)

\* the values of the batch in flight, and the input before it
BatchStart == Len(input) - index
BatchValues == SubSeq(input, BatchStart + 1, Len(input))

\* C19 (batch counter): the buffer index stays within 0..BUFFER_SIZE and a
\* batch holds 1..BUFFER_SIZE values, which are the last index values read;
\* once the MAX_THREADS threads are created their ranges are pairwise
\* disjoint and cover exactly 0..index-1; a thread touches prime_count only
\* while it holds the mutex; a thread past its loop has counted the primes
\* of its range; before a batch prime_count is the number of primes read
\* before it, and after the joins it has grown by the primes of the batch.
C19_BatchRanges ==
  /\ index \in 0..BUFFER_SIZE
  /\ pc[Main] \in {"b_create_full", "b_create_rest", "b_join"} =>
       /\ index \in 1..BUFFER_SIZE
       /\ \A k \in 1..index : buffer[k] = input[BatchStart + k]
  /\ pc[Main] = "b_join" =>
       /\ \A t, u \in BatchThreads :
            t # u => RangeOf(t) \cap RangeOf(u) = {}
       /\ UNION {RangeOf(t) : t \in BatchThreads} = 0..(index - 1)
  /\ \A t \in BatchThreads :
       /\ pc[t] \in {"cp_load", "cp_store", "cp_unlock"} => mutex = t
       /\ pc[t] \in {"cp_lock", "cp_load", "cp_store"} =>
            count[t] = Cardinality({k \in RangeOf(t) : isPrime(buffer[k + 1])})
  /\ (pc[Main] \in {"b_create_full", "b_create_rest"}
        /\ \A t \in BatchThreads : pc[t] = "idle") =>
       prime_count = PrimeCount(SubSeq(input, 1, BatchStart))
  /\ (pc[Main] = "b_join" /\ joined = MAX_THREADS) =>
       prime_count = PrimeCount(SubSeq(input, 1, BatchStart))
                     + PrimeCount(BatchValues)
  /\ output # << >> => output = <<PrimeCount(input)>>

\* a full buffer was counted, then an uneven rest of three values, with
\* primes in both threads' ranges of the rest
C19_Witness ==
  /\ Len(input) = BUFFER_SIZE + 3 /\ index = 3 /\ eof
  /\ pc[Main] = "b_join" /\ joined = MAX_THREADS
  /\ input[BUFFER_SIZE + 1] = 29 /\ input[BUFFER_SIZE + 3] = 29
  /\ prime_count >= 3

====
